---- MODULE Spec2Model ----
(***************************************************************************)
(* Link-resolution / attribution engine and funnel aggregation of the      *)
(* insyte dashboard backend (backend/app/routes/utm.py).                   *)
(*                                                                         *)
(* A Python str that takes part in URL processing is a sequence of tokens: *)
(* a token is either one of the characters/escapes that urllib.parse       *)
(* treats specially or an atom of unreserved characters.                   *)
(***************************************************************************)
EXTENDS Integers, Sequences, FiniteSets, TLC

VARIABLES
    video_links,    \* table video_links: set of VideoLink rows
    clicks,         \* table clicks: set of Click rows
    calls,          \* table calls: set of Call rows
    payments,       \* table payments: set of Payment rows
    video_analytics,\* table video_analytics: set of VideoAnalytics rows
    scan,           \* the order in which the store returns the rows of a table
                    \* to a query without ORDER BY: table -> row ids
    clock,          \* the store's clock (func.now())
    req,            \* redirect requests in flight: request id -> handler frame
    rep,            \* the all-links report request: handler frame
    rw,             \* URL rewriter applied to one link: inputs and outputs
    dv,             \* the deep-view report request: handler frame
    cr              \* link-creation requests in flight: request id -> handler frame

storeVars == <<video_links, clicks, calls, payments, video_analytics, scan>>
vars == <<video_links, clicks, calls, payments, video_analytics, scan, clock,
          req, rep, rw, dv, cr>>

----------------------------------------------------------------------------
(* Bounds *)
NumRequests == 2        \* concurrent redirect requests
MaxClock == 2           \* the clock runs over 1..MaxClock
MaxFields == 2          \* name/value fields in a destination query string
MaxDay == 2             \* report windows are made of the dates 0..MaxDay
DayLen == 2             \* clock ticks per calendar day
MaxPayments == 2        \* rows the payments table holds at most

----------------------------------------------------------------------------
(* Python values *)

\* Python None for a str-valued attribute (a token no string contains)
PyNone == << "<None>" >>

\* SQL NULL / None for an opaque string column or header
NULL == "NULL"

\* Python truthiness of an Optional[str]
Truthy(v) == v # PyNone /\ v # << >>

\* Python `a or b`
PyOr(a, b) == IF Truthy(a) THEN a ELSE b

----------------------------------------------------------------------------
(* urllib.parse on token sequences *)

\* index of the first token of s that is in toks, searching from position
\* from; 0 when there is none  (str.find)
RECURSIVE FindFrom(_, _, _)
FindFrom(s, toks, from) ==
    IF from > Len(s) THEN 0
    ELSE IF s[from] \in toks THEN from
    ELSE FindFrom(s, toks, from + 1)

Find(s, toks) == FindFrom(s, toks, 1)

\* index of the last token of s that is in toks; 0 when none  (str.rfind)
RECURSIVE RFindFrom(_, _, _)
RFindFrom(s, toks, from) ==
    IF from < 1 THEN 0
    ELSE IF s[from] \in toks THEN from
    ELSE RFindFrom(s, toks, from - 1)

RFind(s, toks) == RFindFrom(s, toks, Len(s))

Before(s, i) == SubSeq(s, 1, i - 1)
After(s, i) == SubSeq(s, i + 1, Len(s))

\* the element of a one-element set; Only({F(v) : v \in {e}}) is F(e) with
\* e evaluated once
Only(S) == CHOOSE x \in S : TRUE

\* str.split(sep): the pieces of s between occurrences of sep
RECURSIVE Split(_, _)
Split(s, sep) ==
    Only({IF Find(v, {sep}) = 0 THEN << v >>
          ELSE << Before(v, Find(v, {sep})) >>
               \o Split(After(v, Find(v, {sep})), sep)
          : v \in {s}})

\* str.join
RECURSIVE Join(_, _)
Join(parts, sep) ==
    IF parts = << >> THEN << >>
    ELSE IF Len(parts) = 1 THEN parts[1]
    ELSE parts[1] \o << sep >> \o Join(Tail(parts), sep)

\* tokens that cannot be part of a URL scheme
SchemeStop == {":", "//", "/", "?", "#", "&", "=", ";", "+", " ",
               "%20", "%2B", "%26", "%3D"}

\* urlsplit, first step: scheme, url = url[:i].lower(), url[i+1:]
SplitScheme(url) ==
    IF Len(url) >= 2 /\ url[2] = ":" /\ url[1] \notin SchemeStop
    THEN [scheme |-> << url[1] >>, rest |-> SubSeq(url, 3, Len(url))]
    ELSE [scheme |-> << >>, rest |-> url]

\* urlsplit, second step: if url[:2] == '//': netloc, url = _splitnetloc(url, 2)
SplitNetloc(a) ==
    IF Len(a.rest) >= 1 /\ a.rest[1] = "//"
    THEN LET stop == Find(Tail(a.rest), {"/", "?", "#"})
         IN [scheme |-> a.scheme,
             netloc |-> IF stop = 0 THEN Tail(a.rest)
                        ELSE Before(Tail(a.rest), stop),
             rest |-> IF stop = 0 THEN << >>
                      ELSE SubSeq(Tail(a.rest), stop, Len(a.rest) - 1)]
    ELSE [scheme |-> a.scheme, netloc |-> << >>, rest |-> a.rest]

\* urlsplit, third step: if '#' in url: url, fragment = url.split('#', 1)
SplitFragment(b) ==
    LET h == Find(b.rest, {"#"})
    IN [scheme |-> b.scheme, netloc |-> b.netloc,
        rest |-> IF h = 0 THEN b.rest ELSE Before(b.rest, h),
        fragment |-> IF h = 0 THEN << >> ELSE After(b.rest, h)]

\* urlsplit, last step: if '?' in url: url, query = url.split('?', 1)
SplitQuery(c) ==
    LET q == Find(c.rest, {"?"})
    IN [scheme |-> c.scheme, netloc |-> c.netloc,
        path |-> IF q = 0 THEN c.rest ELSE Before(c.rest, q),
        query |-> IF q = 0 THEN << >> ELSE After(c.rest, q),
        fragment |-> c.fragment]

\* urlsplit: scheme, netloc, path (params still attached), query, fragment
urlsplit(url) ==
    Only({SplitQuery(c) :
            c \in {SplitFragment(b) :
                     b \in {SplitNetloc(a) : a \in {SplitScheme(url)}}}})

\* _splitparams: the ;params of the last path segment
splitparams(path) ==
    LET slash == RFind(path, {"/"})
        i == IF slash # 0 THEN FindFrom(path, {";"}, slash)
             ELSE Find(path, {";"})
    IN IF i = 0 THEN [path |-> path, params |-> << >>]
       ELSE [path |-> Before(path, i), params |-> After(path, i)]

\* urlparse(url): the six components
urlparse(url) ==
    Only({LET p == IF Find(s.path, {";"}) # 0 THEN splitparams(s.path)
                   ELSE [path |-> s.path, params |-> << >>]
          IN [scheme |-> s.scheme, netloc |-> s.netloc, path |-> p.path,
              params |-> p.params, query |-> s.query, fragment |-> s.fragment]
          : s \in {urlsplit(url)}})

\* unquote after replace('+', ' '), one token
UnquoteTok(t) ==
    CASE t = "+" -> " "
      [] t = "%20" -> " "
      [] t = "%2B" -> "+"
      [] t = "%26" -> "&"
      [] t = "%3D" -> "="
      [] OTHER -> t

unquote_plus(s) == [i \in 1..Len(s) |-> UnquoteTok(s[i])]

\* quote_plus, one token
QuoteTok(t) ==
    CASE t = " " -> "+"
      [] t = "+" -> "%2B"
      [] t = "&" -> "%26"
      [] t = "=" -> "%3D"
      [] OTHER -> t

quote_plus(s) == [i \in 1..Len(s) |-> QuoteTok(s[i])]

\* parse_qsl, one name_value field: no pair for an empty field, a field
\* without '=' or a blank value (keep_blank_values=False)
PairOf(nv) ==
    LET e == Find(nv, {"="})
    IN IF nv = << >> THEN << >>
       ELSE IF e = 0 THEN << >>
       ELSE IF After(nv, e) = << >> THEN << >>
       ELSE << << unquote_plus(Before(nv, e)), unquote_plus(After(nv, e)) >> >>

\* the pairs of the fields i, i+1, ...
RECURSIVE PairsOf(_, _)
PairsOf(fields, i) ==
    IF i > Len(fields) THEN << >>
    ELSE PairOf(fields[i]) \o PairsOf(fields, i + 1)

\* parse_qsl(qs, keep_blank_values=False): the (name, value) pairs in order
parse_qsl(qs) ==
    IF qs = << >> THEN << >>
    ELSE Only({PairsOf(fields, 1) : fields \in {Split(qs, "&")}})

\* A Python dict, in insertion order: a sequence of <<key, value>> entries
DictKeys(d) == {d[i][1] : i \in 1..Len(d)}

DictGet(d, k) == LET i == CHOOSE i \in 1..Len(d) : d[i][1] = k IN d[i][2]

\* d[k] = v: an existing key keeps its position, a new key goes last
DictSet(d0, k, v) ==
    Only({IF k \in DictKeys(d)
          THEN [i \in 1..Len(d) |-> IF d[i][1] = k THEN << k, v >> ELSE d[i]]
          ELSE Append(d, << k, v >>)
          : d \in {d0}})

\* parse_qs: parsed_result[name].append(value), or [value] for a new name
AddValue(d, pair) ==
    IF pair[1] \in DictKeys(d)
    THEN DictSet(d, pair[1], Append(DictGet(d, pair[1]), pair[2]))
    ELSE DictSet(d, pair[1], << pair[2] >>)

RECURSIVE ParseInto(_, _, _)
ParseInto(d, pairs, i) ==
    IF i > Len(pairs) THEN d
    ELSE Only({ParseInto(d2, pairs, i + 1) : d2 \in {AddValue(d, pairs[i])}})

\* parse_qs(qs): name -> list of values
parse_qs(qs) == Only({ParseInto(<< >>, pairs, 1) : pairs \in {parse_qsl(qs)}})

\* urlencode(d, doseq=True): one name=value field per value
RECURSIVE EncodeValues(_, _)
EncodeValues(k, vs) ==
    IF vs = << >> THEN << >>
    ELSE << quote_plus(k) \o << "=" >> \o quote_plus(vs[1]) >>
         \o EncodeValues(k, Tail(vs))

RECURSIVE EncodeEntries(_, _)
EncodeEntries(d, i) ==
    IF i > Len(d) THEN << >>
    ELSE EncodeValues(d[i][1], d[i][2]) \o EncodeEntries(d, i + 1)

urlencode(d) ==
    Only({Join(parts, "&") : parts \in {EncodeEntries(v, 1) : v \in {d}}})

\* urlunparse((scheme, netloc, path, params, query, fragment))
urlunparse(scheme, netloc, path, params, query, fragment) ==
    LET u1 == IF params # << >> THEN path \o << ";" >> \o params ELSE path
        u2 == IF netloc # << >> \/ (scheme # << >> /\ SubSeq(u1, 1, 1) # << "//" >>)
              THEN << "//" >> \o netloc
                   \o (IF u1 # << >> /\ u1[1] # "/" THEN << "/" >> ELSE << >>)
                   \o u1
              ELSE u1
        u3 == IF scheme # << >> THEN scheme \o << ":" >> \o u2 ELSE u2
        u4 == IF query # << >> THEN u3 \o << "?" >> \o query ELSE u3
    IN IF fragment # << >> THEN u4 \o << "#" >> \o fragment ELSE u4

----------------------------------------------------------------------------
(* The URL rewriting of redirect_link *)

K(name) == << name >>       \* a str made of one atom

\* variant: the value is appended to the values k already has
SetParamAppend(q, k, v) ==
    IF k \in DictKeys(q)
    THEN DictSet(q, k, Append(DictGet(q, k), v))
    ELSE DictSet(q, k, << v >>)

\* query_params[k] = [v]: overwrite whatever values k had
SetParam(q, k, v) == DictSet(q, k, << v >>)

\* variant: a campaign is written even when the link has none
CampaignParamsAlways(q, link) ==
    SetParam(q, K("utm_campaign"), PyOr(link.utm_campaign, K("default")))

\* if link.utm_campaign: query_params["utm_campaign"] = [link.utm_campaign]
CampaignParams(q, link) ==
    IF Truthy(link.utm_campaign)
    THEN SetParam(q, K("utm_campaign"), link.utm_campaign)
    ELSE q

\* utm_source / utm_medium taken from the link record, with defaults
SourceOf(link) == PyOr(link.utm_source, K("youtube"))
MediumOf(link) == PyOr(link.utm_medium, K("video"))

\* the query parameters of the redirect target
UtmParams(link, slug) ==
    LET q0 == parse_qs(urlparse(link.destination_url).query)
        q1 == SetParam(q0, K("utm_source"), SourceOf(link))
        q2 == SetParam(q1, K("utm_medium"), MediumOf(link))
        q3 == SetParam(q2, K("utm_content"), K(slug))
    IN CampaignParams(q3, link)

\* the redirect target: destination_url with the UTM parameters
BuildRedirectURL(link, slug) ==
    Only({urlunparse(parsed_url.scheme, parsed_url.netloc, parsed_url.path,
                     parsed_url.params, new_query, parsed_url.fragment)
          : parsed_url \in {urlparse(link.destination_url)},
            new_query \in {urlencode(UtmParams(link, slug))}})

----------------------------------------------------------------------------
(* The store *)

Slugs == {"demo", "promo"}
\* request.client.host and the referer header of the clients that call
Clients == {[host |-> "10.0.0.1", referer |-> NULL],
            [host |-> "10.0.0.2", referer |-> "https://youtube.com/watch"]}
ClientTimes == {0}              \* a time value the client may send along

Requests == 1..NumRequests

HTTP_307_TEMPORARY_REDIRECT == 307
HTTP_404_NOT_FOUND == 404
HTTP_500_INTERNAL_SERVER_ERROR == 500

\* https://example.com/page?ref=abc
DemoURL == << "https", ":", "//", "example.com", "/", "page",
              "?", "ref", "=", "abc" >>

\* https://example.com/offer?utm_campaign=old&utm_source=site#top
PromoURL == << "https", ":", "//", "example.com", "/", "offer",
               "?", "utm_campaign", "=", "old", "&", "utm_source", "=", "site",
               "#", "top" >>

VideoLink(id, slug, title, destination_url, utm_source, utm_medium, utm_campaign, created_at) ==
    [id |-> id, slug |-> slug, title |-> title,
     destination_url |-> destination_url, utm_source |-> utm_source,
     utm_medium |-> utm_medium, utm_campaign |-> utm_campaign,
     created_at |-> created_at]

Click(id, slug, timestamp, ip_address, referrer) ==
    [id |-> id, slug |-> slug, timestamp |-> timestamp,
     ip_address |-> ip_address, referrer |-> referrer]

\* links the store may hold when the requests arrive
LinkDemo == VideoLink(1, "demo", "Demo", DemoURL, PyNone, PyNone, PyNone, 0)
LinkPromo == VideoLink(2, "promo", "Promo", PromoURL, K("newsletter"), PyNone,
                       << "spring", " ", "sale" >>, 1)

\* a click recorded before the requests arrive
OldClick == Click(1, "demo", 0, "10.0.0.9", NULL)

Max(S) == CHOOSE x \in S : \A y \in S : y <= x

\* the id the store's sequence gives to a new row of a table
NewId(rows) == IF rows = {} THEN 1 ELSE Max({row.id : row \in rows}) + 1

\* foreign key clicks.slug -> video_links.slug
SlugExists(slug) == \E l \in video_links : l.slug = slug

\* a scan order without the rows that were deleted
Without(order, ids) == SelectSeq(order, LAMBDA id : id \notin ids)

\* the scan orders after the row id was rewritten: an UPDATE writes a new
\* version of the row, which the store may place anywhere
Rewritten(order, id) ==
    {[i \in 1..Len(order) |->
         IF i < k THEN Without(order, {id})[i]
         ELSE IF i = k THEN id
         ELSE Without(order, {id})[i - 1]] : k \in 1..Len(order)}

\* the rows in the order in which the store returns them
ScanOrder(rows, order) ==
    [i \in 1..Cardinality(rows) |->
        Only({row \in rows :
                 row.id = SelectSeq(order,
                              LAMBDA id : \E r \in rows : r.id = id)[i]})]

----------------------------------------------------------------------------
(* GET /go/{slug} *)

NoLink == << >>
NoReply == [status |-> 0, url |-> << >>]

IdleRequest ==
    [pc |-> "idle", slug |-> NULL, host |-> NULL, referer |-> NULL,
     client_time |-> 0, link |-> NoLink, click_id |-> 0, reply |-> NoReply]

\* variant: the timestamp is taken from the request
NewClickClientTime(f) ==
    Click(NewId(clicks), f.slug, f.client_time, f.host, f.referer)

\* the Click row the handler builds; timestamp comes from server_default now()
NewClick(f) == Click(NewId(clicks), f.slug, clock, f.host, f.referer)

\* variant: the click is logged before the link is looked up
RedirectLookupLogFirst(r) ==
    /\ req[r].pc = "idle"
    /\ \E slug \in Slugs, client \in Clients, ct \in ClientTimes :
         LET f == [req[r] EXCEPT !.slug = slug, !.host = client.host,
                                 !.referer = client.referer,
                                 !.client_time = ct]
             found == {l \in video_links : l.slug = slug}
         IN IF found = {}
            THEN /\ clicks' = clicks \cup {NewClick(f)}
                 /\ req' = [req EXCEPT ![r] =
                     [f EXCEPT !.pc = "done",
                               !.reply = [status |-> HTTP_404_NOT_FOUND,
                                          url |-> << >>]]]
            ELSE /\ clicks' = clicks
                 /\ \E link \in found :
                     req' = [req EXCEPT ![r] =
                         [f EXCEPT !.pc = "resolved", !.link = << link >>]]
    /\ UNCHANGED <<video_links, calls, payments, video_analytics, scan, clock, rep,
                   rw, dv, cr>>

\* db.query(VideoLink).filter(VideoLink.slug == slug).first(); 404 when absent
RedirectLookup(r) ==
    /\ req[r].pc = "idle"
    /\ \E slug \in Slugs, client \in Clients, ct \in ClientTimes :
         LET f == [req[r] EXCEPT !.slug = slug, !.host = client.host,
                                 !.referer = client.referer,
                                 !.client_time = ct]
             found == {l \in video_links : l.slug = slug}
         IN IF found = {}
            THEN req' = [req EXCEPT ![r] =
                     [f EXCEPT !.pc = "done",
                               !.reply = [status |-> HTTP_404_NOT_FOUND,
                                          url |-> << >>]]]
            ELSE \E link \in found :
                     req' = [req EXCEPT ![r] =
                         [f EXCEPT !.pc = "resolved", !.link = << link >>]]
    /\ UNCHANGED <<storeVars, clock, rep, rw, dv, cr>>

\* variant: the insert is issued twice
RedirectCommitTwice(r) ==
    /\ req[r].pc = "resolved"
    /\ SlugExists(req[r].slug)
    /\ LET click == NewClick(req[r])
       IN /\ clicks' = clicks \cup {click, [click EXCEPT !.id = click.id + 1]}
          /\ req' = [req EXCEPT ![r].pc = "committed", ![r].click_id = click.id]
    /\ UNCHANGED <<video_links, calls, payments, video_analytics, scan, clock, rep,
                   rw, dv, cr>>

\* variant: clicks.slug is not checked against video_links
RedirectCommitNoForeignKey(r) ==
    /\ req[r].pc = "resolved"
    /\ LET click == NewClick(req[r])
       IN /\ clicks' = clicks \cup {click}
          /\ req' = [req EXCEPT ![r].pc = "committed", ![r].click_id = click.id]
    /\ UNCHANGED <<video_links, calls, payments, video_analytics, scan, clock, rep,
                   rw, dv, cr>>

\* variant: the log keeps only the latest click of a slug
RedirectCommitLatestOnly(r) ==
    /\ req[r].pc = "resolved"
    /\ SlugExists(req[r].slug)
    /\ LET click == NewClick(req[r])
       IN /\ clicks' = {c \in clicks : c.slug # req[r].slug} \cup {click}
          /\ req' = [req EXCEPT ![r].pc = "committed", ![r].click_id = click.id]
    /\ UNCHANGED <<video_links, calls, payments, video_analytics, scan, clock, rep,
                   rw, dv, cr>>

\* db.add(click); db.commit() succeeds: the row is in the store
RedirectCommit(r) ==
    /\ req[r].pc = "resolved"
    /\ SlugExists(req[r].slug)
    /\ LET click == NewClick(req[r])
       IN /\ clicks' = clicks \cup {click}
          /\ req' = [req EXCEPT ![r].pc = "committed", ![r].click_id = click.id]
    /\ UNCHANGED <<video_links, calls, payments, video_analytics, scan, clock, rep,
                   rw, dv, cr>>

\* variant: the failure of the commit is swallowed and the handler goes on
RedirectCommitFailSwallowed(r) ==
    /\ req[r].pc = "resolved"
    /\ req' = [req EXCEPT ![r].pc = "committed"]
    /\ UNCHANGED <<storeVars, clock, rep, rw, dv, cr>>

\* db.commit() raises: the exception leaves the handler, the session is
\* closed without the row, the client gets 500
RedirectCommitFail(r) ==
    /\ req[r].pc = "resolved"
    /\ req' = [req EXCEPT ![r].pc = "done",
                          ![r].reply = [status |-> HTTP_500_INTERNAL_SERVER_ERROR,
                                        url |-> << >>]]
    /\ UNCHANGED <<storeVars, clock, rep, rw, dv, cr>>

\* variant: the redirect is returned without waiting for the commit
RedirectReplyEarly(r) ==
    /\ req[r].pc \in {"resolved", "committed"}
    /\ \E link \in video_links :
         /\ link.id = req[r].link[1].id
         /\ req' = [req EXCEPT ![r].pc = "done",
                      ![r].reply = [status |-> HTTP_307_TEMPORARY_REDIRECT,
                                    url |-> BuildRedirectURL(link, req[r].slug)]]
    /\ UNCHANGED <<storeVars, clock, rep, rw, dv, cr>>

\* build the target from the (reloaded) link and return RedirectResponse
RedirectReply(r) ==
    /\ req[r].pc = "committed"
    /\ \E link \in video_links :
         /\ link.id = req[r].link[1].id
         /\ req' = [req EXCEPT ![r].pc = "done",
                      ![r].reply = [status |-> HTTP_307_TEMPORARY_REDIRECT,
                                    url |-> BuildRedirectURL(link, req[r].slug)]]
    /\ UNCHANGED <<storeVars, clock, rep, rw, dv, cr>>

\* the link was deleted after the commit: reloading the expired link finds
\* no row, ObjectDeletedError leaves the handler, the client gets 500
RedirectReplyGone(r) ==
    /\ req[r].pc = "committed"
    /\ ~\E link \in video_links : link.id = req[r].link[1].id
    /\ req' = [req EXCEPT ![r].pc = "done",
                          ![r].reply = [status |-> HTTP_500_INTERNAL_SERVER_ERROR,
                                        url |-> << >>]]
    /\ UNCHANGED <<storeVars, clock, rep, rw, dv, cr>>

\* the worker dies in the middle of the request
Crash(r) ==
    /\ req[r].pc \in {"resolved", "committed"}
    /\ req' = [req EXCEPT ![r].pc = "crashed"]
    /\ UNCHANGED <<storeVars, clock, rep, rw, dv, cr>>

\* time passes
Tick ==
    /\ clock < MaxClock
    /\ clock' = clock + 1
    /\ UNCHANGED <<storeVars, req, rep, rw, dv, cr>>

----------------------------------------------------------------------------
(* GET /api/links *)

Call(id, slug, status, timestamp) ==
    [id |-> id, slug |-> slug, status |-> status, timestamp |-> timestamp]

Payment(id, slug, amount, timestamp) ==
    [id |-> id, slug |-> slug, amount |-> amount, timestamp |-> timestamp]

CallStatus == {"booked", "pending", "confirmed", "completed", "cancelled",
               "no_show", "rescheduled"}

\* Optional[date]: a date is its day number, NoDate is None
NoDate == -1
Days == 0..MaxDay
Dates == {NoDate} \cup Days

\* a date compared with a timestamp column: midnight at the start of the day
Midnight(d) == d * DayLen

\* query.filter(T.timestamp >= start_date) when start_date is given
FromStart(rows, start_date) ==
    IF start_date # NoDate
    THEN {row \in rows : row.timestamp >= Midnight(start_date)}
    ELSE rows

\* variant: the end date is not moved to the next midnight
ToEndSameDay(rows, end_date) ==
    IF end_date # NoDate
    THEN {row \in rows : row.timestamp < Midnight(end_date)}
    ELSE rows

\* query.filter(T.timestamp < end_date + timedelta(days=1)) when end_date is given
ToEnd(rows, end_date) ==
    IF end_date # NoDate
    THEN LET end_date_inclusive == end_date + 1
         IN {row \in rows : row.timestamp < Midnight(end_date_inclusive)}
    ELSE rows

DateFilters(rows, start_date, end_date) ==
    ToEnd(FromStart(rows, start_date), end_date)

\* SQL count(): never NULL
SqlCount(rows) == Cardinality(rows)

RECURSIVE SumAmount(_)
SumAmount(rows) ==
    IF rows = {} THEN 0
    ELSE LET row == CHOOSE row \in rows : TRUE
         IN row.amount + SumAmount(rows \ {row})

\* SQL sum(amount): NULL (here << >>) over no rows
SqlSum(rows) == IF rows = {} THEN << >> ELSE << SumAmount(rows) >>

\* query.scalar() or default
ScalarOr(scalar, default) ==
    IF scalar = << >> \/ scalar[1] = 0 THEN default ELSE scalar[1]

\* db.query(func.count(Click.id)).filter(Click.slug == link.slug) + dates
ClicksQuery(link, start_date, end_date) ==
    SqlCount(DateFilters({c \in clicks : c.slug = link.slug},
                         start_date, end_date))

\* variant: the calls are counted whatever their status
CallsQueryAnyStatus(link, start_date, end_date) ==
    SqlCount(DateFilters({c \in calls : c.slug = link.slug},
                         start_date, end_date))

\* db.query(func.count(Call.id)).filter(slug, status == BOOKED) + dates
CallsQuery(link, start_date, end_date) ==
    SqlCount(DateFilters({c \in calls : c.slug = link.slug /\ c.status = "booked"},
                         start_date, end_date))

\* db.query(func.count(Payment.id)).filter(Payment.slug == link.slug) + dates
DealsQuery(link, start_date, end_date) ==
    SqlCount(DateFilters({p \in payments : p.slug = link.slug},
                         start_date, end_date))

\* variant: the revenue is summed over the payments of all links
RevenueQueryAllSlugs(link, start_date, end_date) ==
    SqlSum(DateFilters(payments, start_date, end_date))

\* db.query(func.sum(Payment.amount)).filter(Payment.slug == link.slug) + dates
RevenueQuery(link, start_date, end_date) ==
    SqlSum(DateFilters({p \in payments : p.slug = link.slug},
                       start_date, end_date))

\* variant: the links are ordered oldest first
OrderedAsc(rows) ==
    {seq \in [1..Cardinality(rows) -> rows] :
        /\ \A i, j \in DOMAIN seq : i # j => seq[i] # seq[j]
        /\ \A i, j \in DOMAIN seq : i < j => seq[i].created_at <= seq[j].created_at}

\* the orders in which order_by(desc(created_at)).all() may return rows
OrderedDesc(rows) ==
    {seq \in [1..Cardinality(rows) -> rows] :
        /\ \A i, j \in DOMAIN seq : i # j => seq[i] # seq[j]
        /\ \A i, j \in DOMAIN seq : i < j => seq[i].created_at >= seq[j].created_at}

RepIdle ==
    [pc |-> "idle", start_date |-> NoDate, end_date |-> NoDate,
     links |-> << >>, i |-> 0, clicks_count |-> 0, calls_count |-> 0,
     deals_count |-> 0, result |-> << >>, count |-> 0, last |-> << >>]

\* the request arrives with its window; links are read, newest first
ReportLinks ==
    /\ rep.pc \in {"idle", "again"}
    /\ \E start_date \in Dates, end_date \in Dates, links \in OrderedDesc(video_links) :
         /\ rep.pc = "again" =>
               start_date = rep.start_date /\ end_date = rep.end_date
         /\ rep' = [rep EXCEPT !.start_date = start_date, !.end_date = end_date,
                            !.links = links, !.i = 1,
                            !.pc = IF links = << >> THEN "done" ELSE "clicks"]
    /\ UNCHANGED <<storeVars, clock, req, rw, dv, cr>>

\* clicks_count = clicks_query.scalar() or 0
ReportClicks ==
    /\ rep.pc = "clicks"
    /\ rep' = [rep EXCEPT !.pc = "calls",
                 !.clicks_count =
                     ScalarOr(<< ClicksQuery(rep.links[rep.i], rep.start_date,
                                             rep.end_date) >>, 0)]
    /\ UNCHANGED <<storeVars, clock, req, rw, dv, cr>>

\* calls_count = calls_query.scalar() or 0
ReportCalls ==
    /\ rep.pc = "calls"
    /\ rep' = [rep EXCEPT !.pc = "deals",
                 !.calls_count =
                     ScalarOr(<< CallsQuery(rep.links[rep.i], rep.start_date,
                                            rep.end_date) >>, 0)]
    /\ UNCHANGED <<storeVars, clock, req, rw, dv, cr>>

\* deals_count = deals_query.scalar() or 0
ReportDeals ==
    /\ rep.pc = "deals"
    /\ rep' = [rep EXCEPT !.pc = "revenue",
                 !.deals_count =
                     ScalarOr(<< DealsQuery(rep.links[rep.i], rep.start_date,
                                            rep.end_date) >>, 0)]
    /\ UNCHANGED <<storeVars, clock, req, rw, dv, cr>>

\* revenue_total = revenue_query.scalar() or 0.0; the link's stats are
\* appended; after the last link the response is returned
ReportRevenue ==
    /\ rep.pc = "revenue"
    /\ LET link == rep.links[rep.i]
           revenue_total == ScalarOr(RevenueQuery(link, rep.start_date,
                                                  rep.end_date), 0)
           link_stats == [id |-> link.id, slug |-> link.slug,
                          title |-> link.title,
                          destination_url |-> link.destination_url,
                          clicks |-> rep.clicks_count,
                          booked_calls |-> rep.calls_count,
                          deals_closed |-> rep.deals_count,
                          revenue |-> revenue_total,
                          created_at |-> link.created_at]
           result == Append(rep.result, link_stats)
       IN rep' = [rep EXCEPT !.result = result, !.i = rep.i + 1,
                             !.count = Len(result),
                             !.pc = IF rep.i = Len(rep.links) THEN "done"
                                    ELSE "clicks"]
    /\ UNCHANGED <<storeVars, clock, req, rw, dv, cr>>

\* the response is returned; the next request may arrive
ReportReturn ==
    /\ rep.pc = "done"
    /\ rep' = RepIdle
    /\ UNCHANGED <<storeVars, clock, req, rw, dv, cr>>

\* the response is returned and the client asks for the same window again;
\* last is the response it got
ReportAgain ==
    /\ rep.pc = "done"
    /\ rep.last = << >>
    /\ rep' = [RepIdle EXCEPT !.pc = "again", !.start_date = rep.start_date,
                              !.end_date = rep.end_date,
                              !.last = << [links |-> rep.result,
                                           count |-> rep.count] >>]
    /\ UNCHANGED <<storeVars, clock, req, rw, dv, cr>>

\* between two reports the stored status of a call is replaced
UpdateCallStatus ==
    /\ rep.pc = "idle"
    /\ \E call \in calls : \E st \in CallStatus \ {call.status} :
         /\ calls' = (calls \ {call}) \cup {[call EXCEPT !.status = st]}
         /\ \E order \in Rewritten(scan.calls, call.id) :
               scan' = [scan EXCEPT !.calls = order]
    /\ UNCHANGED <<video_links, clicks, payments, video_analytics, clock, req,
                   rep, rw, dv, cr>>

\* rows the tables may hold when a report is asked for
ClickRows == {Click(1, "demo", 1, "10.0.0.1", NULL),
              Click(2, "demo", 4, "10.0.0.2", NULL),
              Click(3, "promo", 2, "10.0.0.1", NULL)}

CallRows == {Call(1, "demo", "booked", 2),
             Call(2, "demo", "completed", 2),
             Call(3, "promo", "booked", 4)}

PaymentRows == {Payment(1, "demo", 100, 1),
                Payment(2, "demo", 50, 3),
                Payment(3, "demo", 25, 4),
                Payment(4, "promo", 70, 2)}

\* foreign keys: every row belongs to a link of the store
RowsOf(rows, links) == {row \in rows : \E l \in links : l.slug = row.slug}

----------------------------------------------------------------------------
(* GET /api/links/deep-view/{slug} *)

HTTP_200_OK == 200
HTTP_400_BAD_REQUEST == 400
DefaultWindowDays == 30         \* timedelta(days=30)

VideoAnalytics(id, slug, video_id, views, last_updated) ==
    [id |-> id, slug |-> slug, video_id |-> video_id, views |-> views,
     last_updated |-> last_updated]

\* the timestamp of tick k of day d
Ts(d, k) == d * DayLen + k

\* timestamp.strftime("%Y-%m-%d"): the calendar day of a timestamp; the
\* zero-padded strings sort as the days do
DayOf(t) == t \div DayLen

\* date(d).isoformat(), the text "YYYY-MM-DD" of day d
IsoDate(d) == << ToString(d) >>

\* values of an Optional[str] date parameter: absent, empty, not a date, dates
DateStrings == {PyNone, << >>, << "tomorrow" >>} \cup {IsoDate(d) : d \in Days}

\* datetime.fromisoformat(s) raises ValueError
ValueError(s) == \A d \in Days : s # IsoDate(d)

\* datetime.fromisoformat(s): midnight at the start of the day s names
fromisoformat(s) == Midnight(CHOOSE d \in Days : s = IsoDate(d))

\* filter(T.timestamp >= start_date_dt, T.timestamp <= end_date_dt)
Between(rows, start_date_dt, end_date_dt) ==
    {row \in rows : row.timestamp >= start_date_dt /\ row.timestamp <= end_date_dt}

\* filter(T.timestamp >= start_date_dt, T.timestamp < end_date_dt)
BetweenExcl(rows, start_date_dt, end_date_dt) ==
    {row \in rows : row.timestamp >= start_date_dt /\ row.timestamp < end_date_dt}

\* the orders in which a query without ORDER BY may return rows
AnyOrder(rows) ==
    {seq \in [1..Cardinality(rows) -> rows] :
        \A i, j \in DOMAIN seq : i # j => seq[i] # seq[j]}

\* the scan orders a store with these calls and snapshots may have
ScanOrders ==
    {[calls |-> c, video_analytics |-> v] :
        c \in AnyOrder({row.id : row \in calls}),
        v \in AnyOrder({row.id : row \in video_analytics})}

NoVideoData == << >>

DvIdle ==
    [pc |-> "idle", slug |-> NULL, start_date |-> PyNone, end_date |-> PyNone,
     start_date_dt |-> 0, end_date_dt |-> 0, status |-> 0,
     title |-> NULL, total_clicks |-> 0, clicks_data |-> << >>,
     calls |-> << >>, deals |-> << >>, views |-> 0, video_data |-> NoVideoData,
     last |-> << >>]

DvSlugs == Slugs \cup {"ghost"}

\* the request arrives; end_date then start_date are parsed, defaulting to
\* now and to 30 days before the end; HTTP 400 on a ValueError
DeepViewDates ==
    /\ dv.pc \in {"idle", "again"}
    /\ \E slug \in DvSlugs, start_date \in DateStrings, end_date \in DateStrings :
         /\ dv.pc = "again" =>
               /\ slug = dv.slug
               /\ start_date = dv.start_date
               /\ end_date = dv.end_date
         /\ LET f == [dv EXCEPT !.slug = slug, !.start_date = start_date,
                                !.end_date = end_date]
            IN IF Truthy(end_date) /\ ValueError(end_date)
               THEN dv' = [f EXCEPT !.pc = "done", !.status = HTTP_400_BAD_REQUEST]
               ELSE LET end_date_dt == IF Truthy(end_date)
                                       THEN fromisoformat(end_date) ELSE clock
                    IN IF Truthy(start_date) /\ ValueError(start_date)
                       THEN dv' = [f EXCEPT !.pc = "done",
                                            !.status = HTTP_400_BAD_REQUEST]
                       ELSE dv' = [f EXCEPT !.pc = "link",
                                     !.end_date_dt = end_date_dt,
                                     !.start_date_dt =
                                         IF Truthy(start_date)
                                         THEN fromisoformat(start_date)
                                         ELSE end_date_dt
                                              - DefaultWindowDays * DayLen]
    /\ UNCHANGED <<storeVars, clock, req, rep, rw, cr>>

\* link = db.query(VideoLink).filter(VideoLink.slug == slug).first();
\* HTTP 404 when there is none
DeepViewLink ==
    /\ dv.pc = "link"
    /\ LET found == {l \in video_links : l.slug = dv.slug}
       IN IF found = {}
          THEN dv' = [dv EXCEPT !.pc = "done", !.status = HTTP_404_NOT_FOUND]
          ELSE \E link \in found :
                  dv' = [dv EXCEPT !.pc = "count", !.title = link.title]
    /\ UNCHANGED <<storeVars, clock, req, rep, rw, cr>>

\* clicks_query: the Click rows of the slug between the two datetimes
DvClicksQuery ==
    Between({c \in clicks : c.slug = dv.slug}, dv.start_date_dt, dv.end_date_dt)

\* total_clicks = clicks_query.count()
DeepViewCount ==
    /\ dv.pc = "count"
    /\ dv' = [dv EXCEPT !.pc = "clicks", !.total_clicks = SqlCount(DvClicksQuery)]
    /\ UNCHANGED <<storeVars, clock, req, rep, rw, cr>>

\* variant: the day's counter is set instead of incremented
ClicksByDaySet(rows) ==
    [day \in {DayOf(c.timestamp) : c \in rows} |-> 1]

\* clicks_by_day: day -> number of the rows on that day, for the days that
\* have a row
ClicksByDay(rows) ==
    [day \in {DayOf(c.timestamp) : c \in rows} |->
        Cardinality({c \in rows : DayOf(c.timestamp) = day})]

Min(S) == CHOOSE x \in S : \A y \in S : x <= y

\* [{"date": day, "count": count} for day, count in sorted(d.items())]
RECURSIVE SortedItems(_)
SortedItems(d) ==
    IF DOMAIN d = {} THEN << >>
    ELSE Only({<< [date |-> day, count |-> d[day]] >>
                 \o SortedItems([x \in DOMAIN d \ {day} |-> d[x]])
               : day \in {Min(DOMAIN d)}})

\* the daily click series, from clicks_query.all()
DeepViewClicks ==
    /\ dv.pc = "clicks"
    /\ dv' = [dv EXCEPT !.pc = "calls",
                        !.clicks_data = SortedItems(ClicksByDay(DvClicksQuery))]
    /\ UNCHANGED <<storeVars, clock, req, rep, rw, cr>>

\* calls_query: the Call rows of the slug between the two datetimes
DvCallsQuery ==
    Between({c \in calls : c.slug = dv.slug}, dv.start_date_dt, dv.end_date_dt)

\* variant: the branch for pending calls is missing
BucketOfNoPending(call) ==
    IF call.status = "booked" THEN "booked"
    ELSE IF call.status = "confirmed" THEN "confirmed"
    ELSE IF call.status = "completed" THEN "completed"
    ELSE IF call.status = "cancelled" THEN "cancelled"
    ELSE IF call.status = "no_show" THEN "no_show"
    ELSE IF call.status = "rescheduled" THEN "rescheduled"
    ELSE "none"

\* the counter the if/elif chain increments for a call ("none": no branch)
BucketOf(call) ==
    IF call.status = "booked" THEN "booked"
    ELSE IF call.status = "confirmed" THEN "confirmed"
    ELSE IF call.status = "completed" THEN "completed"
    ELSE IF call.status = "cancelled" THEN "cancelled"
    ELSE IF call.status = "no_show" THEN "no_show"
    ELSE IF call.status = "rescheduled" THEN "rescheduled"
    ELSE IF call.status = "pending" THEN "pending"
    ELSE "none"

\* the value of counter b after the loop over the rows
Counter(rows, b) == Cardinality({i \in DOMAIN rows : BucketOf(rows[i]) = b})

\* the entry of calls_list for a row
CallItem(call) == [date |-> call.timestamp, status |-> call.status, id |-> call.id]

\* the loop over calls_query.all(): calls_list and the seven counters
DeepViewCalls ==
    /\ dv.pc = "calls"
    /\ \E rows \in {ScanOrder(DvCallsQuery, scan.calls)} :
         dv' = [dv EXCEPT !.pc = "deals",
                  !.calls = << [booked |-> Counter(rows, "booked"),
                                confirmed |-> Counter(rows, "confirmed"),
                                completed |-> Counter(rows, "completed"),
                                cancelled |-> Counter(rows, "cancelled"),
                                pending |-> Counter(rows, "pending"),
                                no_show |-> Counter(rows, "no_show"),
                                rescheduled |-> Counter(rows, "rescheduled"),
                                list |-> [i \in DOMAIN rows |-> CallItem(rows[i])]] >>]
    /\ UNCHANGED <<storeVars, clock, req, rep, rw, cr>>

\* variant: the payments are not restricted to the window
DvDealsQueryAnyTime ==
    {p \in payments : p.slug = dv.slug}

\* deals_query: the Payment rows of the slug between the two datetimes
DvDealsQuery ==
    Between({p \in payments : p.slug = dv.slug}, dv.start_date_dt, dv.end_date_dt)

\* the loop over deals_query.all(): total_revenue += amount, closed_deals += 1
DeepViewDeals ==
    /\ dv.pc = "deals"
    /\ dv' = [dv EXCEPT !.pc = "video",
                !.deals = << [closed |-> Cardinality(DvDealsQuery),
                              revenue |-> SumAmount(DvDealsQuery)] >>]
    /\ UNCHANGED <<storeVars, clock, req, rep, rw, cr>>

\* the VideoAnalytics rows of the slug with start <= last_updated < end
DvVideoQuery ==
    {va \in video_analytics :
        /\ va.slug = dv.slug
        /\ va.last_updated >= dv.start_date_dt
        /\ va.last_updated < dv.end_date_dt}

\* total_views after `if total_views == 0: total_views = total_clicks * 2`
ViewsOrEstimate(snapshot, total_clicks) ==
    LET total_views == IF snapshot = << >> THEN 0 ELSE snapshot[1].views
    IN IF total_views = 0 THEN total_clicks * 2 ELSE total_views

\* video_data built from the snapshot and the two per-video queries
VideoData(va) ==
    [video_id |-> va.video_id, views |-> va.views,
     published_at |-> va.last_updated,
     leads_generated |->
         ScalarOr(<< SqlCount(BetweenExcl({c \in calls : c.slug = dv.slug},
                                          dv.start_date_dt, dv.end_date_dt)) >>, 0),
     revenue |->
         ScalarOr(SqlSum(BetweenExcl({p \in payments : p.slug = dv.slug},
                                     dv.start_date_dt, dv.end_date_dt)), 0)]

\* variant: first() returns any of the rows, whatever the store's order
DeepViewVideoAnyRow ==
    /\ dv.pc = "video"
    /\ \E snapshot \in IF DvVideoQuery = {} THEN {<< >>}
                       ELSE {<< va >> : va \in DvVideoQuery} :
         dv' = [dv EXCEPT !.pc = "done", !.status = HTTP_200_OK,
                  !.views = ViewsOrEstimate(snapshot, dv.total_clicks),
                  !.video_data = IF snapshot = << >> THEN NoVideoData
                                 ELSE << VideoData(snapshot[1]) >>]
    /\ UNCHANGED <<storeVars, clock, req, rep, rw, cr>>

\* query.first() without order_by: the first row in the store's order
FirstSnapshot ==
    IF DvVideoQuery = {} THEN << >>
    ELSE << ScanOrder(DvVideoQuery, scan.video_analytics)[1] >>

\* video_analytics = query.first(); views from it or estimated; the response
DeepViewVideo ==
    /\ dv.pc = "video"
    /\ \E snapshot \in {FirstSnapshot} :
         dv' = [dv EXCEPT !.pc = "done", !.status = HTTP_200_OK,
                  !.views = ViewsOrEstimate(snapshot, dv.total_clicks),
                  !.video_data = IF snapshot = << >> THEN NoVideoData
                                 ELSE << VideoData(snapshot[1]) >>]
    /\ UNCHANGED <<storeVars, clock, req, rep, rw, cr>>

\* what the client gets: the status and the body
DvResponse ==
    [status |-> dv.status, title |-> dv.title, total_clicks |-> dv.total_clicks,
     clicks_data |-> dv.clicks_data, calls |-> dv.calls, deals |-> dv.deals,
     views |-> dv.views, video_data |-> dv.video_data]

\* the response is returned and the client sends the same request again;
\* last is the response it got
DeepViewAgain ==
    /\ dv.pc = "done"
    /\ dv.last = << >>
    /\ dv' = [DvIdle EXCEPT !.pc = "again", !.slug = dv.slug,
                            !.start_date = dv.start_date,
                            !.end_date = dv.end_date,
                            !.last = << DvResponse >>]
    /\ UNCHANGED <<storeVars, clock, req, rep, rw, cr>>

\* the response is returned; the handler is free for the next request
DeepViewReturn ==
    /\ dv.pc = "done"
    /\ dv' = DvIdle
    /\ UNCHANGED <<storeVars, clock, req, rep, rw, cr>>

\* rows the tables may hold when a deep view is asked for
DvNow == Ts(MaxDay, DayLen - 1)

DvClickRows ==
    {Click(1, "demo", Ts(MaxDay - DefaultWindowDays, 0), "10.0.0.1", NULL),
     Click(2, "demo", Ts(0, 1), "10.0.0.1", NULL),
     Click(3, "demo", Ts(1, 0), "10.0.0.2", NULL),
     Click(4, "demo", Ts(1, 1), "10.0.0.1", NULL),
     Click(5, "promo", Ts(1, 1), "10.0.0.2", NULL)}

DvCallRows == {Call(1, "demo", "booked", Ts(1, 1)),
               Call(2, "demo", "pending", Ts(1, 0)),
               Call(3, "demo", "booked", Ts(0, 1))}

DvPaymentRows == {Payment(1, "demo", 100, Ts(1, 0)),
                  Payment(2, "demo", 50, Ts(1, 1)),
                  Payment(3, "promo", 70, Ts(0, 1))}

DvSnapshotRows == {VideoAnalytics(1, "demo", "abc123", 0, Ts(0, 1)),
                   VideoAnalytics(2, "demo", "abc123", 500, Ts(1, 0))}

----------------------------------------------------------------------------
(* POST /api/links/create, and the removal of a link *)

HTTP_201_CREATED == 201
HTTP_409_CONFLICT == 409
HTTP_422_UNPROCESSABLE_ENTITY == 422

Creations == 1..NumRequests

\* the two revisions of the handler: app/routes/utm.py, backend/app/routes/utm.py
Revisions == {"app", "backend"}

\* Field(..., min_length=3, max_length=100) of LinkCreate.slug
SlugMinLength == 3
SlugMaxLength == 100

\* the slugs a client may send: the two of the model, one too short, one too
\* long, one with an upper-case letter, and one ending in a line feed
LongSlug ==
    "aaaaaaaaaaaaaaaaaaaaaaaaaaaaaaaaaaaaaaaaaaaaaaaaaaaaaaaaaaaaaaaaaaaaaaaaaaaaaaaaaaaaaaaaaaaaaaaaaaaaa"

SlugInputs == Slugs \cup {"ab", LongSlug, "Demo", "demo\n"}

\* the characters of a slug
SlugChars(slug) ==
    CASE slug = "demo" -> << "d", "e", "m", "o" >>
      [] slug = "promo" -> << "p", "r", "o", "m", "o" >>
      [] slug = "ab" -> << "a", "b" >>
      [] slug = LongSlug -> [i \in 1..(SlugMaxLength + 1) |-> "a"]
      [] slug = "Demo" -> << "D", "e", "m", "o" >>
      [] slug = "demo\n" -> << "d", "e", "m", "o", "\n" >>

\* the character class [a-z0-9-]
SlugAlphabet ==
    {"a", "b", "c", "d", "e", "f", "g", "h", "i", "j", "k", "l", "m", "n",
     "o", "p", "q", "r", "s", "t", "u", "v", "w", "x", "y", "z",
     "0", "1", "2", "3", "4", "5", "6", "7", "8", "9", "-"}

\* re.match(r'^[a-z0-9-]+$', v): one or more characters of the class up to
\* the end of the string, and $ also matches before a line feed that ends it
SlugPattern(v) ==
    LET body == IF Len(v) >= 1 /\ v[Len(v)] = "\n"
                THEN SubSeq(v, 1, Len(v) - 1)
                ELSE v
    IN /\ Len(body) >= 1
       /\ \A i \in 1..Len(body) : body[i] \in SlugAlphabet

\* LinkCreate accepts the slug: the constraints of the field, then
\* validate_slug_format
ValidSlug(slug) ==
    /\ Len(SlugChars(slug)) >= SlugMinLength
    /\ Len(SlugChars(slug)) <= SlugMaxLength
    /\ SlugPattern(SlugChars(slug))

\* the app revision's base_url
BaseURL == "https://yourdomain.com"

NoBody == << >>

\* {"slug": new_link.slug, "link": f"{base_url}/go/{new_link.slug}"}
LinkResponse(slug) == << [slug |-> slug, link |-> << BaseURL, "/go/", slug >>] >>

IdleCreation == [pc |-> "idle", revision |-> "app", slug |-> NULL, status |-> 0,
                 detail |-> NULL, body |-> NoBody]

\* the request body is parsed into LinkCreate before the handler runs; a body
\* that fails a validator is answered 422 and the handler is not called.  The
\* title and the destination_url of every request of the model are valid.
CreateValidate(c) ==
    /\ cr[c].pc = "idle"
    /\ \E slug \in SlugInputs, revision \in Revisions :
         cr' = [cr EXCEPT ![c] =
                  IF ValidSlug(slug)
                  THEN [IdleCreation EXCEPT !.pc = "validated",
                                            !.revision = revision,
                                            !.slug = slug]
                  ELSE [IdleCreation EXCEPT !.pc = "done",
                                            !.revision = revision,
                                            !.slug = slug,
                                            !.status = HTTP_422_UNPROCESSABLE_ENTITY]]
    /\ UNCHANGED <<storeVars, clock, req, rep, rw, dv>>

\* variant: a request for a slug that exists replaces the link's title
CreateCheckUpsert(c) ==
    /\ cr[c].pc = "validated"
    /\ IF SlugExists(cr[c].slug)
       THEN /\ video_links' = {IF l.slug = cr[c].slug
                               THEN [l EXCEPT !.title = "New"] ELSE l :
                               l \in video_links}
            /\ cr' = [cr EXCEPT ![c].pc = "done",
                                ![c].status = HTTP_409_CONFLICT]
       ELSE /\ cr' = [cr EXCEPT ![c].pc = "checked"]
            /\ UNCHANGED video_links
    /\ UNCHANGED <<clicks, calls, payments, video_analytics, scan, clock, req, rep,
                   rw, dv>>

\* existing_link = db.query(VideoLink).filter(slug == link_data.slug).first();
\* HTTP 409 when there is one
CreateCheck(c) ==
    /\ cr[c].pc = "validated"
    /\ cr' = [cr EXCEPT ![c] =
                IF SlugExists(cr[c].slug)
                THEN [cr[c] EXCEPT !.pc = "done", !.status = HTTP_409_CONFLICT]
                ELSE [cr[c] EXCEPT !.pc = "checked"]]
    /\ UNCHANGED <<storeVars, clock, req, rep, rw, dv>>

\* variant: the table has no unique constraint on slug
CreateCommitNoUnique(c) ==
    /\ cr[c].pc = "checked"
    /\ cr[c].revision = "app"
    /\ video_links' = video_links \cup
           {VideoLink(NewId(video_links), cr[c].slug, "New", DemoURL,
                      PyNone, PyNone, PyNone, clock)}
    /\ cr' = [cr EXCEPT ![c].pc = "done", ![c].status = HTTP_201_CREATED,
                        ![c].body = LinkResponse(cr[c].slug)]
    /\ UNCHANGED <<clicks, calls, payments, video_analytics, scan, clock, req, rep,
                   rw, dv>>

\* new_link = VideoLink(slug, title, destination_url); db.add; db.commit():
\* the row is inserted unless the unique constraint on slug rejects it
CreateCommit(c) ==
    /\ cr[c].pc = "checked"
    /\ cr[c].revision = "app"
    /\ ~SlugExists(cr[c].slug)
    /\ video_links' = video_links \cup
           {VideoLink(NewId(video_links), cr[c].slug, "New", DemoURL,
                      PyNone, PyNone, PyNone, clock)}
    /\ cr' = [cr EXCEPT ![c].pc = "done", ![c].status = HTTP_201_CREATED,
                        ![c].body = LinkResponse(cr[c].slug)]
    /\ UNCHANGED <<clicks, calls, payments, video_analytics, scan, clock, req, rep,
                   rw, dv>>

\* db.commit() raises (IntegrityError on a slug inserted since the check, or
\* OperationalError when the store fails): except Exception -> HTTP 500 with
\* the exception in its detail, nothing is inserted
CreateCommitFail(c) ==
    /\ cr[c].pc = "checked"
    /\ cr[c].revision = "app"
    /\ \E e \in (IF SlugExists(cr[c].slug) THEN {"IntegrityError"} ELSE {})
                  \cup {"OperationalError"} :
         cr' = [cr EXCEPT ![c].pc = "done",
                          ![c].status = HTTP_500_INTERNAL_SERVER_ERROR,
                          ![c].detail = e]
    /\ UNCHANGED <<storeVars, clock, req, rep, rw, dv>>

\* the backend revision reads link_data.utm_source, which LinkCreate does not
\* have: AttributeError, except Exception -> HTTP 500, nothing is inserted
CreateAttributeError(c) ==
    /\ cr[c].pc = "checked"
    /\ cr[c].revision = "backend"
    /\ cr' = [cr EXCEPT ![c].pc = "done",
                        ![c].status = HTTP_500_INTERNAL_SERVER_ERROR,
                        ![c].detail = "AttributeError"]
    /\ UNCHANGED <<storeVars, clock, req, rep, rw, dv>>

\* db.delete(link); db.commit(): the link goes, and by the cascades of its
\* relationships so do its clicks, calls, payments and analytics
DeleteLink ==
    /\ \E link \in video_links :
         /\ video_links' = video_links \ {link}
         /\ clicks' = {row \in clicks : row.slug # link.slug}
         /\ calls' = {row \in calls : row.slug # link.slug}
         /\ payments' = {row \in payments : row.slug # link.slug}
         /\ video_analytics' = {row \in video_analytics : row.slug # link.slug}
         /\ scan' = [calls |-> Without(scan.calls,
                                        {row.id : row \in calls \ calls'}),
                      video_analytics |->
                          Without(scan.video_analytics,
                                  {row.id : row \in video_analytics \ video_analytics'})]
    /\ UNCHANGED <<clock, req, rep, rw, dv, cr>>

\* the Stripe webhook records a payment of a link: Payment(slug, amount,
\* timestamp); db.add; db.commit()
InsertPayment ==
    /\ Cardinality(payments) < MaxPayments
    /\ \E link \in video_links :
         payments' = payments \cup
             {Payment(NewId(payments), link.slug, 40, Ts(1, 0))}
    /\ UNCHANGED <<video_links, clicks, calls, video_analytics, scan, clock,
                   req, rep, rw, dv, cr>>

----------------------------------------------------------------------------
(* The rewriter on its own: one link, rewritten and rewritten again *)

RwIdle == [stage |-> 0, link |-> LinkDemo, slug |-> "demo",
           url1 |-> << >>, url2 |-> << >>]

\* name/value fields a destination query string is made of
QueryFields ==
    { << "ref", "=", "abc" >>,
      << "ref", "=" >>,
      << "flag" >>,
      << "q", "=", "a", "%20", "b" >>,
      << "q", "=", "b", "%2B", "c" >>,
      << "utm_source", "=", "old" >>,
      << "utm_source", "=", "older" >>,
      << "utm_campaign", "=", "old" >> }

FieldLists == UNION {[1..n -> QueryFields] : n \in 0..MaxFields}

\* https://example.com/page[;v=1][?query][#top]
DestURL(fields, decorated) ==
    << "https", ":", "//", "example.com", "/", "page" >>
    \o (IF decorated THEN << ";", "v", "=", "1" >> ELSE << >>)
    \o (IF fields = << >> THEN << >> ELSE << "?" >> \o Join(fields, "&"))
    \o (IF decorated THEN << "#", "top" >> ELSE << >>)

DestURLs == {DestURL(fl, d) : fl \in FieldLists, d \in BOOLEAN}

UtmSources == {PyNone, << >>, K("newsletter")}
UtmMediums == {PyNone, K("email")}
UtmCampaigns == {PyNone, << >>, << "spring", " ", "sale" >>}

RwFirst ==
    /\ rw.stage = 0
    /\ rw' = [rw EXCEPT !.stage = 1,
                        !.url1 = BuildRedirectURL(rw.link, rw.slug)]
    /\ UNCHANGED <<storeVars, clock, req, rep, dv, cr>>

RwAgain ==
    /\ rw.stage = 1
    /\ rw' = [rw EXCEPT !.stage = 2,
                 !.url2 = BuildRedirectURL(
                              [rw.link EXCEPT !.destination_url = rw.url1],
                              rw.slug)]
    /\ UNCHANGED <<storeVars, clock, req, rep, dv, cr>>

----------------------------------------------------------------------------
(* Specifications *)

Init ==
    /\ video_links \in SUBSET {LinkDemo, LinkPromo}
    /\ clicks \in {c \in SUBSET {OldClick} :
                      \A row \in c : \E l \in video_links : l.slug = row.slug}
    /\ calls = {}
    /\ payments = {}
    /\ video_analytics = {}
    /\ scan \in ScanOrders
    /\ clock = 1
    /\ req = [r \in Requests |-> IdleRequest]
    /\ rep = RepIdle
    /\ rw = RwIdle
    /\ dv = DvIdle
    /\ cr = [c \in Creations |-> IdleCreation]

Next ==
    \/ \E r \in Requests : RedirectLookup(r)
    \/ \E r \in Requests : RedirectCommit(r)
    \/ \E r \in Requests : RedirectCommitFail(r)
    \/ \E r \in Requests : RedirectReply(r)
    \/ \E r \in Requests : Crash(r)
    \/ Tick

Spec == Init /\ [][Next]_vars

InitRewrite ==
    /\ video_links = {}
    /\ clicks = {}
    /\ calls = {}
    /\ payments = {}
    /\ video_analytics = {}
    /\ scan \in ScanOrders
    /\ clock = 1
    /\ req = [r \in Requests |-> IdleRequest]
    /\ dv = DvIdle
    /\ cr = [c \in Creations |-> IdleCreation]
    /\ rep = RepIdle
    /\ \E d \in DestURLs, us \in UtmSources, um \in UtmMediums,
          uc \in UtmCampaigns, slug \in Slugs :
         rw = [stage |-> 0,
               link |-> VideoLink(1, slug, "Demo", d, us, um, uc, 0),
               slug |-> slug, url1 |-> << >>, url2 |-> << >>]

NextRewrite == RwFirst \/ RwAgain

SpecRewrite == InitRewrite /\ [][NextRewrite]_vars

InitReport ==
    /\ video_links \in {{LinkDemo}, {LinkDemo, LinkPromo}}
    /\ clicks \in SUBSET RowsOf(ClickRows, video_links)
    /\ calls \in SUBSET RowsOf(CallRows, video_links)
    /\ payments \in SUBSET RowsOf(PaymentRows, video_links)
    /\ video_analytics = {}
    /\ scan \in ScanOrders
    /\ clock = 1
    /\ req = [r \in Requests |-> IdleRequest]
    /\ rep = RepIdle
    /\ rw = RwIdle
    /\ dv = DvIdle
    /\ cr = [c \in Creations |-> IdleCreation]

NextReport ==
    \/ ReportLinks
    \/ ReportClicks
    \/ ReportCalls
    \/ ReportDeals
    \/ ReportRevenue

SpecReport == InitReport /\ [][NextReport]_vars

InitCalls ==
    /\ video_links = {LinkDemo, LinkPromo}
    /\ clicks = {}
    /\ calls \in SUBSET CallRows
    /\ payments = {}
    /\ video_analytics = {}
    /\ scan \in ScanOrders
    /\ clock = 1
    /\ req = [r \in Requests |-> IdleRequest]
    /\ rep = RepIdle
    /\ rw = RwIdle
    /\ dv = DvIdle
    /\ cr = [c \in Creations |-> IdleCreation]

NextCalls ==
    \/ NextReport
    \/ ReportReturn
    \/ UpdateCallStatus

SpecCalls == InitCalls /\ [][NextCalls]_vars

InitDeepView ==
    /\ video_links = {LinkDemo, LinkPromo}
    /\ clicks \in {{}, {c \in DvClickRows : c.id = 3}, DvClickRows}
    /\ calls \in {{}, DvCallRows}
    /\ payments \in {{}, DvPaymentRows}
    /\ video_analytics \in SUBSET DvSnapshotRows
    /\ scan \in ScanOrders
    /\ clock = DvNow
    /\ req = [r \in Requests |-> IdleRequest]
    /\ rep = RepIdle
    /\ rw = RwIdle
    /\ dv = DvIdle
    /\ cr = [c \in Creations |-> IdleCreation]

NextDeepView ==
    \/ DeepViewDates
    \/ DeepViewLink
    \/ DeepViewCount
    \/ DeepViewClicks
    \/ DeepViewCalls
    \/ DeepViewDeals
    \/ DeepViewVideo

SpecDeepView == InitDeepView /\ [][NextDeepView]_vars

\* both reports over one store; the requests are served one after another
InitFunnel ==
    /\ video_links = {LinkDemo, LinkPromo}
    /\ clicks \in {{}, {c \in DvClickRows : c.id = 3}}
    /\ calls = {}
    /\ payments \in {{}, {p \in DvPaymentRows : p.slug = "promo"}, DvPaymentRows}
    /\ video_analytics = {}
    /\ scan \in ScanOrders
    /\ clock = DvNow
    /\ req = [r \in Requests |-> IdleRequest]
    /\ rep = RepIdle
    /\ rw = RwIdle
    /\ dv = DvIdle
    /\ cr = [c \in Creations |-> IdleCreation]

NextFunnel ==
    \/ dv.pc \in {"idle", "done"} /\ NextReport
    \/ rep.pc \in {"idle", "done"} /\ NextDeepView

SpecFunnel == InitFunnel /\ [][NextFunnel]_vars

\* either report asked for twice over a store that nobody writes, while
\* time passes
InitRepeat ==
    /\ video_links = {LinkDemo, LinkPromo}
    /\ clicks \in {{}, DvClickRows}
    /\ calls = DvCallRows
    /\ payments = DvPaymentRows
    /\ video_analytics = DvSnapshotRows
    /\ scan \in ScanOrders
    /\ clock = 1
    /\ req = [r \in Requests |-> IdleRequest]
    /\ rep = RepIdle
    /\ rw = RwIdle
    /\ dv = DvIdle
    /\ cr = [c \in Creations |-> IdleCreation]

NextRepeat ==
    \/ dv.pc = "idle" /\ NextReport
    \/ dv.pc = "idle" /\ ReportAgain
    \/ rep.pc = "idle" /\ NextDeepView
    \/ rep.pc = "idle" /\ DeepViewAgain
    \/ Tick

SpecRepeat == InitRepeat /\ [][NextRepeat]_vars

\* the reports served one after another while a redirect and the payment
\* webhook write the store
InitLive ==
    /\ video_links = {LinkDemo}
    /\ clicks = {c \in DvClickRows : c.id = 3}
    /\ calls = {}
    /\ payments = {p \in DvPaymentRows : p.id = 1}
    /\ video_analytics = {}
    /\ scan \in ScanOrders
    /\ clock = DvNow
    /\ req = [r \in Requests |-> IdleRequest]
    /\ rep = RepIdle
    /\ rw = RwIdle
    /\ dv = DvIdle
    /\ cr = [c \in Creations |-> IdleCreation]

NextLive ==
    \/ RedirectLookup(1)
    \/ RedirectCommit(1)
    \/ RedirectCommitFail(1)
    \/ RedirectReply(1)
    \/ InsertPayment
    \/ dv.pc = "idle" /\ NextReport
    \/ ReportReturn
    \/ rep.pc = "idle" /\ NextDeepView
    \/ DeepViewReturn

SpecLive == InitLive /\ [][NextLive]_vars

InitLinks ==
    /\ video_links \in SUBSET {LinkDemo}
    /\ clicks = {row \in {OldClick} : SlugExists(row.slug)}
    /\ calls = {row \in DvCallRows : row.id = 1 /\ SlugExists(row.slug)}
    /\ payments = {row \in DvPaymentRows : row.id = 1 /\ SlugExists(row.slug)}
    /\ video_analytics = {row \in DvSnapshotRows :
                              row.id = 1 /\ SlugExists(row.slug)}
    /\ scan \in ScanOrders
    /\ clock = 1
    /\ req = [r \in Requests |-> IdleRequest]
    /\ rep = RepIdle
    /\ rw = RwIdle
    /\ dv = DvIdle
    /\ cr = [c \in Creations |-> IdleCreation]

NextLinks ==
    \/ \E c \in Creations : CreateValidate(c)
    \/ \E c \in Creations : CreateCheck(c)
    \/ \E c \in Creations : CreateCommit(c)
    \/ \E c \in Creations : CreateCommitFail(c)
    \/ \E c \in Creations : CreateAttributeError(c)
    \/ DeleteLink
    \/ RedirectLookup(1)
    \/ RedirectCommit(1)
    \/ RedirectCommitFail(1)
    \/ RedirectReply(1)
    \/ RedirectReplyGone(1)

SpecLinks == InitLinks /\ [][NextLinks]_vars

----------------------------------------------------------------------------
(* Properties of the redirect *)

\* the step r takes in a transition, if it takes one
Moves(r) == req'[r] # req[r]
Status(r) == req[r].reply.status

\* Click rows recorded since the requests arrived
NewClicks == clicks \ {OldClick}

\* C1: a redirect request for a slug that has no VideoLink is answered with
\* 404 and the Click rows are the same after it as before it.
C1_UnknownSlugNotFound ==
    [][\A r \in Requests :
          /\ (req[r].pc = "idle" /\ Moves(r) /\ ~\E l \in video_links : l.slug = req'[r].slug)
                => /\ req'[r].pc = "done"
                   /\ req'[r].reply.status = HTTP_404_NOT_FOUND
                   /\ req'[r].click_id = 0
                   /\ clicks' = clicks
          /\ Status(r) = HTTP_404_NOT_FOUND => (req'[r] = req[r])
      ]_vars

C1_Witness ==
    \E r \in Requests :
        /\ Status(r) = HTTP_404_NOT_FOUND
        /\ ~SlugExists(req[r].slug)
        /\ clicks # {}

\* C2: a successful redirect adds exactly one Click row, with the requested
\* slug, the client's address, the referer header (or NULL) and the server
\* clock as timestamp, never the time the client sent; the reply is a 307.
C2_OneClickPerRedirect ==
    [][\A r \in Requests : Moves(r) =>
          /\ IF req'[r].pc = "committed"
             THEN \E row \in clicks' :
                     /\ row \notin clicks
                     /\ clicks' = clicks \cup {row}
                     /\ \A old \in clicks : old.id # row.id
                     /\ row.id = req'[r].click_id
                     /\ row.slug = req[r].slug
                     /\ row.ip_address = req[r].host
                     /\ row.referrer = req[r].referer
                     /\ row.timestamp = clock
                     /\ row.timestamp # req[r].client_time
             ELSE clicks' = clicks
          /\ req'[r].reply.status = HTTP_307_TEMPORARY_REDIRECT
                => req[r].pc = "committed" /\ req[r].click_id # 0
          /\ (req[r].pc = "committed" /\ req'[r].pc = "done")
                => req'[r].reply.status = HTTP_307_TEMPORARY_REDIRECT
      ]_vars

C2_Witness ==
    \E r \in Requests :
        /\ Status(r) = HTTP_307_TEMPORARY_REDIRECT
        /\ req[r].referer # NULL
        /\ \E row \in NewClicks :
              /\ row.id = req[r].click_id
              /\ row.referrer = req[r].referer
              /\ row.timestamp > 1

\* C3: a redirect is issued only after the request's Click row is committed;
\* a request that crashes issues no redirect, and a crash after the commit
\* leaves the Click row in the store.
C3_ClickBeforeRedirect ==
    [][\A r \in Requests :
          /\ (req'[r].reply.status = HTTP_307_TEMPORARY_REDIRECT
              /\ Status(r) # HTTP_307_TEMPORARY_REDIRECT)
                => \E row \in clicks :
                      row.id = req[r].click_id /\ row.slug = req[r].slug
          /\ (req'[r].pc = "crashed" /\ req[r].pc # "crashed")
                => /\ clicks' = clicks
                   /\ req'[r].reply = NoReply
                   /\ req[r].pc = "committed"
                        => \E row \in clicks' : row.id = req'[r].click_id
          /\ req[r].pc = "crashed" => req'[r] = req[r]
      ]_vars

C3_Witness ==
    \E r1, r2 \in Requests :
        /\ Status(r1) = HTTP_307_TEMPORARY_REDIRECT
        /\ req[r2].pc = "crashed"
        /\ req[r2].click_id # 0
        /\ \E row \in clicks : row.id = req[r2].click_id

\* C4: when the write of the Click row fails the request ends with a 500:
\* no redirect, no second attempt, no Click row of that request.
C4_FailedWriteAborts ==
    [][\A r \in Requests :
          /\ (req[r].pc = "resolved" /\ req'[r].pc \notin {"resolved", "crashed"}
              /\ clicks' = clicks)
                => /\ req'[r].pc = "done"
                   /\ req'[r].reply = [status |-> HTTP_500_INTERNAL_SERVER_ERROR,
                                       url |-> << >>]
                   /\ req'[r].click_id = 0
          /\ Status(r) = HTTP_500_INTERNAL_SERVER_ERROR
                => /\ req'[r] = req[r]
                   /\ \A row \in clicks' \ clicks : row.id # req[r].click_id
      ]_vars

C4_Witness ==
    \E r \in Requests :
        /\ Status(r) = HTTP_500_INTERNAL_SERVER_ERROR
        /\ req[r].click_id = 0
        /\ SlugExists(req[r].slug)

\* C5: under every interleaving of redirect requests each request that got
\* through the commit has one Click row of its own: per slug the new rows are
\* as many as the requests that recorded a click, every redirected request is
\* one of them, and when all requests are redirected there are as many new
\* rows as requests.
C5_NoClickLostOrDuplicated ==
    /\ \A s \in Slugs :
          Cardinality({row \in NewClicks : row.slug = s})
            = Cardinality({r \in Requests : req[r].slug = s /\ req[r].click_id # 0})
    /\ \A r \in Requests :
          Status(r) = HTTP_307_TEMPORARY_REDIRECT
            => \E row \in NewClicks :
                  row.id = req[r].click_id /\ row.slug = req[r].slug
    /\ \A r1, r2 \in Requests :
          (r1 # r2 /\ req[r1].click_id # 0) => req[r1].click_id # req[r2].click_id
    /\ (\A r \in Requests : Status(r) = HTTP_307_TEMPORARY_REDIRECT)
          => Cardinality(NewClicks) = NumRequests

C5_Witness ==
    /\ \A r \in Requests : Status(r) = HTTP_307_TEMPORARY_REDIRECT
    /\ \E r1, r2 \in Requests : r1 # r2 /\ req[r1].slug = req[r2].slug
    /\ Cardinality(NewClicks) = NumRequests

----------------------------------------------------------------------------
(* Properties of the URL rewriting *)

\* the parameter map of a URL's query string: name -> list of values
ParamMap(url) ==
    LET d == parse_qs(urlparse(url).query)
    IN [k \in DictKeys(d) |-> DictGet(d, k)]

ReservedKeys == {K("utm_source"), K("utm_medium"), K("utm_content"),
                 K("utm_campaign")}

\* the name/value pairs written in a query string, blank values included
FieldPairs(qs) ==
    LET fields == IF qs = << >> THEN << >> ELSE Split(qs, "&")
    IN {LET nv == fields[i]
            e == Find(nv, {"="})
        IN IF e = 0 THEN << unquote_plus(nv), << >> >>
           ELSE << unquote_plus(Before(nv, e)), unquote_plus(After(nv, e)) >>
        : i \in {j \in 1..Len(fields) : fields[j] # << >>}}

\* C6 (as claimed): the rewritten URL keeps scheme, host, path and fragment,
\* carries exactly one value for utm_source, utm_medium and utm_content, has
\* the destination's values for every other key, and every name/value pair
\* of the destination's query string with a non-reserved name is in it.
C6_RewritePreservesAllParams ==
    rw.stage >= 1 =>
        LET d == urlparse(rw.link.destination_url)
            o == urlparse(rw.url1)
            din == ParamMap(rw.link.destination_url)
            out == ParamMap(rw.url1)
        IN /\ o.scheme = d.scheme
           /\ o.netloc = d.netloc
           /\ o.path = d.path
           /\ o.fragment = d.fragment
           /\ \A k \in {K("utm_source"), K("utm_medium"), K("utm_content")} :
                 k \in DOMAIN out /\ Len(out[k]) = 1
           /\ \A k \in (DOMAIN din \cup DOMAIN out) \ ReservedKeys :
                 k \in DOMAIN din /\ k \in DOMAIN out /\ out[k] = din[k]
           /\ \A p \in FieldPairs(d.query) :
                 p[1] \notin ReservedKeys => p \in FieldPairs(o.query)

\* C7: rewriting the rewritten URL again, for the same link attributes and
\* slug, gives the same parameter map as rewriting once.
C7_RewriteIdempotent ==
    rw.stage = 2 => ParamMap(rw.url2) = ParamMap(rw.url1)

C7_Witness ==
    /\ rw.stage = 2
    /\ K("utm_source") \in DOMAIN ParamMap(rw.link.destination_url)
    /\ Len(ParamMap(rw.link.destination_url)[K("utm_source")]) = 2
    /\ Truthy(rw.link.utm_campaign)
    /\ ParamMap(rw.url2)[K("utm_source")] = << SourceOf(rw.link) >>

\* C8 (as claimed): whatever the link stores, the issued URL has
\* utm_source=youtube, utm_medium=video and utm_content=<slug>.
C8_FixedSourceAndMedium ==
    \A r \in Requests :
        Status(r) = HTTP_307_TEMPORARY_REDIRECT =>
            LET out == ParamMap(req[r].reply.url)
            IN /\ K("utm_source") \in DOMAIN out
               /\ out[K("utm_source")] = << K("youtube") >>
               /\ K("utm_medium") \in DOMAIN out
               /\ out[K("utm_medium")] = << K("video") >>
               /\ K("utm_content") \in DOMAIN out
               /\ out[K("utm_content")] = << K(req[r].slug) >>

\* C9: utm_campaign is written only for a link that has a campaign: then the
\* issued URL has exactly that value for utm_campaign, whatever the
\* destination had; for a link without campaign the destination's
\* utm_campaign values, if any, are left as they are.
C9_CampaignOnlyIfPresent ==
    rw.stage >= 1 =>
        LET din == ParamMap(rw.link.destination_url)
            out == ParamMap(rw.url1)
            c == K("utm_campaign")
        IN IF rw.link.utm_campaign # PyNone /\ rw.link.utm_campaign # << >>
           THEN c \in DOMAIN out /\ out[c] = << rw.link.utm_campaign >>
           ELSE /\ c \in DOMAIN out <=> c \in DOMAIN din
                /\ c \in DOMAIN out => out[c] = din[c]

C9_Witness ==
    /\ rw.stage >= 1
    /\ rw.link.utm_campaign = << "spring", " ", "sale" >>
    /\ K("utm_campaign") \in DOMAIN ParamMap(rw.link.destination_url)
    /\ ParamMap(rw.url1)[K("utm_campaign")] = << << "spring", " ", "sale" >> >>

----------------------------------------------------------------------------
(* Properties of the all-links report *)

\* the timestamps of the window [start_date, end_date + 1 day)
InWindow(t, start_date, end_date) ==
    /\ start_date # NoDate => t >= start_date * DayLen
    /\ end_date # NoDate => t < (end_date + 1) * DayLen

RECURSIVE Total(_, _)
Total(rows, ids) ==
    IF ids = {} THEN 0
    ELSE LET id == CHOOSE id \in ids : TRUE
             row == CHOOSE row \in rows : row.id = id
         IN row.amount + Total(rows, ids \ {id})

\* C10: for every VideoLink and window the all-links report gives clicks =
\* number of the link's Click rows in the window, deals_closed = number of
\* its Payment rows in the window and revenue = sum of the amounts of those
\* Payment rows; other slugs and rows outside the window count for nothing.
C10_ReportCountsMatchRows ==
    rep.pc = "done" =>
        /\ \A l \in video_links : \E i \in DOMAIN rep.result : rep.result[i].slug = l.slug
        /\ \A i \in DOMAIN rep.result :
              LET e == rep.result[i]
                  cs == {c \in clicks : c.slug = e.slug
                            /\ InWindow(c.timestamp, rep.start_date, rep.end_date)}
                  ps == {q \in payments : q.slug = e.slug
                            /\ InWindow(q.timestamp, rep.start_date, rep.end_date)}
              IN /\ e.clicks = Cardinality(cs)
                 /\ e.deals_closed = Cardinality(ps)
                 /\ e.revenue = Total(payments, {q.id : q \in ps})

C10_Witness ==
    /\ rep.pc = "done"
    /\ rep.start_date # NoDate
    /\ rep.end_date # NoDate
    /\ \E i \in DOMAIN rep.result :
          /\ rep.result[i].slug = "demo"
          /\ rep.result[i].clicks = 1
          /\ rep.result[i].deals_closed = 2
          /\ rep.result[i].revenue = 150
    /\ Cardinality(payments) = 4
    /\ Cardinality(clicks) = 3


\* the rows of a link that the window [start_date, end_date + 1 day) holds;
\* a side without a date is unbounded
Counted(rows, slug) ==
    {row \in rows :
        /\ row.slug = slug
        /\ rep.start_date = NoDate \/ row.timestamp >= rep.start_date * DayLen
        /\ rep.end_date = NoDate \/ row.timestamp < (rep.end_date + 1) * DayLen}

\* C11: in the all-links report with end_date = D every Click, Call and
\* Payment row with timestamp < D + 1 day (and >= start_date when given) is
\* counted and no row with timestamp >= D + 1 day is; a side without a date
\* is unbounded.
C11_HalfOpenWindow ==
    rep.pc = "done" =>
        \A i \in DOMAIN rep.result :
            LET e == rep.result[i]
            IN /\ e.clicks = Cardinality(Counted(clicks, e.slug))
               /\ e.booked_calls =
                      Cardinality(Counted({c \in calls : c.status = "booked"}, e.slug))
               /\ e.deals_closed = Cardinality(Counted(payments, e.slug))

C11_Witness ==
    /\ rep.pc = "done"
    /\ rep.start_date = NoDate
    /\ rep.end_date # NoDate
    /\ \E i \in DOMAIN rep.result :
          /\ rep.result[i].slug = "demo"
          /\ rep.result[i].clicks = 1
          /\ \E c \in clicks : c.slug = "demo"
                /\ c.timestamp >= (rep.end_date + 1) * DayLen
          /\ \E c \in clicks : c.slug = "demo"
                /\ c.timestamp >= rep.end_date * DayLen
                /\ c.timestamp < (rep.end_date + 1) * DayLen

\* C13: booked_calls is the number of the link's Call rows in the window
\* whose stored status is booked; a row whose stored status is one of the
\* other six statuses is not counted, so a call whose status has changed
\* away from booked is absent from the count of the next report.
C13_BookedCallsByStoredStatus ==
    rep.pc = "done" =>
        \A i \in DOMAIN rep.result :
            LET e == rep.result[i]
                inWindow == Counted(calls, e.slug)
                others == {c \in inWindow : c.status \in CallStatus \ {"booked"}}
            IN /\ e.booked_calls = Cardinality({c \in inWindow : c.status = "booked"})
               /\ e.booked_calls = Cardinality(inWindow) - Cardinality(others)

C13_Witness ==
    /\ rep.pc = "done"
    /\ \E c \in calls : c.id = 1 /\ c.status = "no_show" /\ c \in Counted(calls, "demo")
    /\ \E c \in calls : c.id = 2 /\ c.status = "booked" /\ c \in Counted(calls, "demo")
    /\ \E i \in DOMAIN rep.result :
          rep.result[i].slug = "demo" /\ rep.result[i].booked_calls = 1

\* C15: the all-links report has exactly one entry per VideoLink of the
\* store, also for links without clicks, calls or payments; count is the
\* number of VideoLinks; the entries are ordered by created_at descending.
C15_OneEntryPerLinkNewestFirst ==
    rep.pc = "done" =>
        /\ Len(rep.result) = Cardinality(video_links)
        /\ rep.count = Cardinality(video_links)
        /\ \A l \in video_links :
              Cardinality({i \in DOMAIN rep.result : rep.result[i].id = l.id
                             /\ rep.result[i].slug = l.slug}) = 1
        /\ \A i, j \in DOMAIN rep.result :
              i < j => rep.result[i].created_at >= rep.result[j].created_at

C15_Witness ==
    /\ rep.pc = "done"
    /\ Len(rep.result) = 2
    /\ rep.result[1].slug = "promo"
    /\ rep.result[2].slug = "demo"
    /\ \A c \in clicks : c.slug # "promo"
    /\ \A c \in calls : c.slug # "promo"
    /\ \A q \in payments : q.slug # "promo"

----------------------------------------------------------------------------
(* Properties of the deep-view report *)

DvOk == dv.pc = "done" /\ dv.status = HTTP_200_OK

\* the request names its end date D
DvEndDay == CHOOSE d \in Days : dv.end_date = IsoDate(d)

\* the rows of the slug from the window's start to the end of day D
UpToEndOfDay(rows) ==
    {row \in rows : /\ row.slug = dv.slug
                    /\ row.timestamp >= dv.start_date_dt
                    /\ row.timestamp < (DvEndDay + 1) * DayLen}

\* C12: in the deep-view report with end_date = D every Click, Call and
\* Payment row of the slug with timestamp < D + 1 day (and >= the window
\* start) is included in the click total, the call list and the deal
\* count and revenue, and no later row is.
C12_DeepViewEndDateInclusive ==
    (DvOk /\ Truthy(dv.end_date)) =>
        /\ dv.total_clicks = Cardinality(UpToEndOfDay(clicks))
        /\ Len(dv.calls[1].list) = Cardinality(UpToEndOfDay(calls))
        /\ dv.deals[1].closed = Cardinality(UpToEndOfDay(payments))
        /\ dv.deals[1].revenue =
               Total(payments, {q.id : q \in UpToEndOfDay(payments)})

\* the rows of the slug between the report's two datetimes
DvRows(rows) ==
    {row \in rows : /\ row.slug = dv.slug
                    /\ row.timestamp >= dv.start_date_dt
                    /\ row.timestamp <= dv.end_date_dt}

BucketSum(c) ==
    c.booked + c.pending + c.confirmed + c.completed + c.cancelled
    + c.no_show + c.rescheduled

\* C16: every Call row of the slug in the window is counted in exactly one
\* of the seven status buckets, the one of its stored status; the buckets
\* sum to the number of those rows and to the length of the call list;
\* the buckets are determined by the Call rows alone.
C16_CallBucketsPartition ==
    DvOk =>
        LET c == dv.calls[1]
            n(st) == Cardinality({row \in DvRows(calls) : row.status = st})
        IN /\ c.booked = n("booked")
           /\ c.pending = n("pending")
           /\ c.confirmed = n("confirmed")
           /\ c.completed = n("completed")
           /\ c.cancelled = n("cancelled")
           /\ c.no_show = n("no_show")
           /\ c.rescheduled = n("rescheduled")
           /\ BucketSum(c) = Cardinality(DvRows(calls))
           /\ BucketSum(c) = Len(c.list)

C16_Witness ==
    /\ DvOk
    /\ dv.calls[1].booked = 2
    /\ dv.calls[1].pending = 1
    /\ Len(dv.calls[1].list) = 3
    /\ clicks = {}
    /\ payments # {}

RECURSIVE SumCounts(_, _)
SumCounts(items, i) ==
    IF i > Len(items) THEN 0 ELSE items[i].count + SumCounts(items, i + 1)

\* C17: the daily click histogram has an entry for a date exactly when a
\* Click row of the slug in the window falls on it, is sorted ascending by
\* date without repetition, each count is the number of those rows on the
\* date, and the counts sum to the total click count.
C17_DailyHistogram ==
    DvOk =>
        LET h == dv.clicks_data
            on(day) == {c \in DvRows(clicks) : c.timestamp \div DayLen = day}
        IN /\ {h[i].date : i \in DOMAIN h}
                = {c.timestamp \div DayLen : c \in DvRows(clicks)}
           /\ \A i, j \in DOMAIN h : i < j => h[i].date < h[j].date
           /\ \A i \in DOMAIN h : h[i].count = Cardinality(on(h[i].date))
           /\ SumCounts(h, 1) = dv.total_clicks

C17_Witness ==
    /\ DvOk
    /\ Len(dv.clicks_data) = 2
    /\ dv.clicks_data[2].count = 2
    /\ dv.total_clicks = 3

\* C18: views = 2 * total_clicks exactly when no VideoAnalytics snapshot of
\* the slug exists in the window, and then video_data is absent; with a
\* snapshot, views is the snapshot's measured views, whatever the value.
C18_ViewsEstimatedOnlyWithoutSnapshot ==
    DvOk =>
        /\ dv.video_data = NoVideoData <=> DvVideoQuery = {}
        /\ dv.video_data = NoVideoData => dv.views = 2 * dv.total_clicks
        /\ dv.video_data # NoVideoData => dv.views = dv.video_data[1].views

\* the request is answered without a report
NoReport ==
    /\ dv.clicks_data = DvIdle.clicks_data
    /\ dv.calls = DvIdle.calls
    /\ dv.deals = DvIdle.deals
    /\ dv.video_data = DvIdle.video_data

\* C19: the deep view answers HTTP 400 when start_date or end_date cannot
\* be parsed as an ISO date and HTTP 404 when the slug has no VideoLink; no
\* report is produced then and the store is unchanged.
C19_BadDateOrUnknownSlug ==
    dv.pc = "done" =>
        /\ ((dv.end_date # PyNone /\ ValueError(dv.end_date))
             \/ (dv.start_date # PyNone /\ ValueError(dv.start_date)))
               => (dv.status = HTTP_400_BAD_REQUEST /\ NoReport)
        /\ (dv.status # HTTP_400_BAD_REQUEST /\ ~SlugExists(dv.slug))
               => (dv.status = HTTP_404_NOT_FOUND /\ NoReport)


\* C14: for a link with no Payment row in the window the all-links report
\* and the deep-view report give revenue 0.0, a number, and a closed-deal
\* count of 0, and the report does not fail.
C14_NoPaymentsZeroRevenue ==
    /\ rep.pc = "done" =>
          \A i \in DOMAIN rep.result :
              Counted(payments, rep.result[i].slug) = {}
                  => /\ rep.result[i].revenue = 0
                     /\ rep.result[i].deals_closed = 0
    /\ (dv.pc = "done" /\ SlugExists(dv.slug)
           /\ ~(Truthy(dv.end_date) /\ ValueError(dv.end_date))
           /\ ~(Truthy(dv.start_date) /\ ValueError(dv.start_date)))
          => dv.status = HTTP_200_OK
    /\ (DvOk /\ DvRows(payments) = {})
          => /\ dv.deals[1].revenue = 0
             /\ dv.deals[1].closed = 0

C14_Witness ==
    /\ rep.pc = "done"
    /\ DvOk
    /\ dv.slug = "demo"
    /\ \E p \in payments : p.slug = "demo"
    /\ DvRows(payments) = {}
    /\ Counted(payments, "demo") = {}
    /\ dv.deals[1].revenue = 0
    /\ \E i \in DOMAIN rep.result :
          rep.result[i].slug = "demo" /\ rep.result[i].revenue = 0


----------------------------------------------------------------------------
(* Properties of the link table *)

\* C20: after any interleaving of link creations, link deletions and
\* redirects no two VideoLink rows have the same slug.
C20_SlugUnique ==
    \A l1, l2 \in video_links : l1.slug = l2.slug => l1 = l2

C20_Witness ==
    /\ \E c1, c2 \in Creations :
          /\ c1 # c2
          /\ cr[c1].slug = cr[c2].slug
          /\ cr[c1].pc = "done" /\ cr[c1].status = HTTP_201_CREATED
          /\ cr[c2].pc = "checked"
          /\ SlugExists(cr[c1].slug)
    /\ \E row \in clicks : row.slug = "demo"

\* the slug is 3 to 100 characters, each a lowercase letter, a digit or a dash
WellFormedSlug(slug) ==
    /\ Len(SlugChars(slug)) \in 3..100
    /\ \A i \in 1..Len(SlugChars(slug)) : SlugChars(slug)[i] \in SlugAlphabet

\* creation c leaves the stage it is in
Leaves(c, pc) == cr[c].pc = pc /\ cr'[c].pc # pc

\* C21: a link-creation request whose slug is held by an existing VideoLink
\* when the handler looks it up ends with 409 Conflict and no body, and the
\* step leaves every table as it was: the existing link keeps its fields and
\* no row is added.
C21_DuplicateSlugConflict ==
    [][\A c \in Creations :
          (Leaves(c, "validated") /\ SlugExists(cr[c].slug))
          => /\ cr'[c].pc = "done"
             /\ cr'[c].status = HTTP_409_CONFLICT
             /\ cr'[c].body = NoBody
             /\ UNCHANGED storeVars]_vars

C21_Witness ==
    \E c \in Creations :
       /\ cr[c].pc = "done"
       /\ cr[c].status = HTTP_409_CONFLICT
       /\ cr[c].slug = "demo"
       /\ LinkDemo \in video_links

\* C22: a link-creation request with a well-formed slug that is not in the
\* store when the handler commits, and without a failure of the store, ends
\* with 201, adds exactly one VideoLink with the requested slug, title and
\* destination, returns the slug and a link ending in /go/<slug>, and a
\* lookup of the slug finds the link afterwards.
C22_FreshSlugCreated ==
    [][\A c \in Creations :
          (/\ Leaves(c, "checked")
           /\ WellFormedSlug(cr[c].slug)
           /\ ~SlugExists(cr[c].slug)
           /\ cr'[c].detail # "OperationalError")
          => /\ cr'[c].status = HTTP_201_CREATED
             /\ \E link \in video_links' \ video_links :
                   /\ video_links' = video_links \cup {link}
                   /\ link.slug = cr[c].slug
                   /\ link.title = "New"
                   /\ link.destination_url = DemoURL
             /\ cr'[c].body # NoBody
             /\ cr'[c].body[1].slug = cr[c].slug
             /\ SubSeq(cr'[c].body[1].link, Len(cr'[c].body[1].link) - 1,
                       Len(cr'[c].body[1].link)) = << "/go/", cr[c].slug >>
             /\ \E link \in video_links' : link.slug = cr[c].slug]_vars

\* C23: a link-creation request whose slug is not 3 to 100 lowercase letters,
\* digits and dashes is answered with a validation error, and every VideoLink
\* in the store has a slug of that form.
C23_MalformedSlugRejected ==
    /\ \A c \in Creations :
          (cr[c].pc # "idle" /\ ~WellFormedSlug(cr[c].slug))
          => cr[c].status = HTTP_422_UNPROCESSABLE_ENTITY
    /\ \A link \in video_links : WellFormedSlug(link.slug)

\* C26: every Click, Call, Payment and VideoAnalytics row has the slug of a
\* VideoLink in the store, whatever the interleaving of redirects, link
\* creations and link deletions.
C26_NoOrphanRows ==
    \A row \in clicks \cup calls \cup payments \cup video_analytics :
       SlugExists(row.slug)

\* the link of a redirect was deleted, with all its rows, between the lookup
\* and the commit, and the redirect has ended
C26_Witness ==
    /\ req[1].pc = "done"
    /\ req[1].slug = "demo"
    /\ req[1].reply.status = HTTP_500_INTERNAL_SERVER_ERROR
    /\ ~SlugExists("demo")
    /\ clicks \cup calls \cup payments \cup video_analytics = {}

\* C30: when a creation commits after another creation of the same slug has
\* succeeded (both passed the lookup), and the store does not fail, it is
\* answered 409 Conflict and the store keeps exactly one link with the slug.
C30_LoserGetsConflict ==
    [][\A c \in Creations :
          (/\ Leaves(c, "checked")
           /\ \E d \in Creations \ {c} :
                 /\ cr[d].slug = cr[c].slug
                 /\ cr[d].status = HTTP_201_CREATED
           /\ SlugExists(cr[c].slug)
           /\ cr'[c].detail # "OperationalError")
          => /\ cr'[c].status = HTTP_409_CONFLICT
             /\ Cardinality({l \in video_links' : l.slug = cr[c].slug}) = 1]_vars

----------------------------------------------------------------------------
(* Properties of the deep view's video data *)

\* C27: when the deep view reports video_data, its revenue equals the
\* report's deals.revenue and its leads_generated equals the sum of the
\* seven call-status buckets.
C27_VideoDataSameWindow ==
    (DvOk /\ dv.video_data # NoVideoData)
    => /\ dv.video_data[1].revenue = dv.deals[1].revenue
       /\ dv.video_data[1].leads_generated = BucketSum(dv.calls[1])

\* C28: when the deep view reports video_data, it is that of the snapshot of
\* the slug with the greatest last_updated in the window.
C28_FreshestSnapshot ==
    (DvOk /\ dv.video_data # NoVideoData)
    => \A va \in DvVideoQuery :
          va.last_updated <= dv.video_data[1].published_at

----------------------------------------------------------------------------
(* Properties of the reports while the store is written *)

\* C24: no step of a redirect, an all-links report or a deep view removes or
\* changes a Click row: every row in the store before a step is in the
\* store after it, and the number of Click rows of a slug never decreases.
C24_ClickLogAppendOnly ==
    [][/\ \A row \in clicks : row \in clicks'
       /\ \A slug \in Slugs :
             Cardinality({row \in clicks' : row.slug = slug})
             >= Cardinality({row \in clicks : row.slug = slug})]_vars

C24_Witness ==
    /\ req[1].pc = "done"
    /\ req[1].reply.status = HTTP_307_TEMPORARY_REDIRECT
    /\ DvOk
    /\ dv.total_clicks = 2
    /\ Cardinality(clicks) = 2
    /\ \E row \in clicks : row.id = 3

\* C29: the figures of one report that come from the same table agree: the
\* deep view's daily counts sum to its total click count, and in the
\* all-links report the revenue of a link is the sum of the amounts of as
\* many of its Payment rows as deals_closed counts.
C29_ReportFiguresAgree ==
    /\ DvOk => SumCounts(dv.clicks_data, 1) = dv.total_clicks
    /\ rep.pc = "done" =>
          \A i \in DOMAIN rep.result :
             \E ps \in SUBSET {q \in payments : q.slug = rep.result[i].slug} :
                /\ Cardinality(ps) = rep.result[i].deals_closed
                /\ Total(payments, {q.id : q \in ps}) = rep.result[i].revenue

----------------------------------------------------------------------------
(* Properties of the reports as reads *)

\* both dates of the deep view are given and can be parsed
DvExplicitWindow ==
    /\ Truthy(dv.start_date) /\ ~ValueError(dv.start_date)
    /\ Truthy(dv.end_date) /\ ~ValueError(dv.end_date)

====
